---- MODULE Spec2Model ----
(***************************************************************************)
(* Transaction store of the Financial-Advisor application (App component)  *)
(* and the import reconciliation done by addTransactions: deduplication    *)
(* against the history followed by the recurrence ("fixed bill") upgrade.  *)
(*                                                                         *)
(* Strings are sequences of one-character strings, so that toLowerCase,    *)
(* trim, replace and includes are computed as JavaScript computes them.    *)
(* Amounts are integers in thousandths of a dollar (0.01 is 10).           *)
(* A date string is a record: kind "day" is a date-only ISO string         *)
(* (YYYY-MM-DD, which Date parses as UTC midnight), kind "ts" is a full    *)
(* ISO timestamp as written by toISOString (UTC, hour h), kind "bad" is a  *)
(* string Date cannot parse.                                               *)
(***************************************************************************)
EXTENDS Integers, Sequences, FiniteSets, TLC

VARIABLES
    transactions,   \* App state: the history, newest first
    tzOffset,       \* the browser's time zone, hours east of UTC
    nextId,         \* ids handed out so far (uuidv4 never repeats)
    lastOp,         \* name of the store operation applied last
    lastBatch,      \* argument of the last addTransactions call
    lastPrev,       \* the history the last operation was applied to
    uniqueNew,      \* local of the last addTransactions call (step 1 result)
    processedNew,   \* local of the last addTransactions call (step 2 result)
    cnIn,           \* cleanName harness: the name given
    cnOut,          \* cleanName harness: the name returned
    cnDone,         \* cleanName harness: whether cleanName has run
    pairIn,         \* match-rule harness: <<existingTx, newTx>>
    pairOut,        \* match-rule harness: what the tests returned
    pairDone,       \* match-rule harness: whether the tests have run
    editingId,      \* editor state (TransactionList, Dashboard): 0 is null
    editForm,       \* editor state: the copy of the record being edited
    deletingId,     \* TransactionList state: 0 is null
    applied,        \* the updaters the last render applied, in order
    form,           \* TransactionForm state
    scan,           \* TransactionForm: the receipt scan in flight
    created,        \* type and category of the record created last
    isLoading,      \* App state
    persisted,      \* what the storage service holds
    queued,         \* App: state updates queued since the last render
    effects,        \* App: effects of the last render not yet run
    importType,     \* SmartImports state: "none" is null
    isAnalyzingFile, \* SmartImports state
    parsedItems,    \* SmartImports state: the items under review
    files,          \* SmartImports: the files selected so far and what
                    \* became of the analysis of each (history variable)
    session         \* SmartImports: how often the modal was opened

vars == <<transactions, tzOffset, nextId, lastOp, lastBatch, lastPrev,
          uniqueNew, processedNew, cnIn, cnOut, cnDone,
          pairIn, pairOut, pairDone,
          editingId, editForm, deletingId, applied,
          form, scan, created,
          isLoading, persisted, queued, effects,
          importType, isAnalyzingFile, parsedItems, files, session>>

storeVars == <<transactions, tzOffset, nextId, lastOp, lastBatch, lastPrev,
               uniqueNew, processedNew>>

cnVars == <<cnIn, cnOut, cnDone>>

pairVars == <<pairIn, pairOut, pairDone>>

uiVars == <<editingId, editForm, deletingId, applied>>

formVars == <<form, scan, created>>

appVars == <<isLoading, persisted, queued, effects>>

modalVars == <<importType, isAnalyzingFile, parsedItems, files, session>>

\* what the store operations, cleanName, the match tests, the user
\* interface, the entry form and the effects of App leave alone
outsideStore == <<cnVars, pairVars, uiVars, formVars, appVars, modalVars>>
outsideClean == <<storeVars, pairVars, uiVars, formVars, appVars, modalVars>>
outsidePair == <<storeVars, cnVars, uiVars, formVars, appVars, modalVars>>
outsideUi == <<lastOp, lastBatch, lastPrev, uniqueNew, processedNew,
               cnVars, pairVars, formVars, appVars, modalVars>>
outsideForm == <<storeVars, cnVars, pairVars, uiVars, appVars, modalVars>>
outsideApp == <<lastOp, lastBatch, lastPrev, uniqueNew, processedNew,
                cnVars, pairVars, uiVars, formVars, modalVars>>
outsideModal == <<cnVars, pairVars, uiVars, formVars, appVars>>

-----------------------------------------------------------------------------
(* Bounds of the model *)

MaxHist == 3     \* longest history explored
MaxBatch == 2    \* longest import batch explored
MaxPieces == 3   \* cleanName inputs are built from at most this many pieces

-----------------------------------------------------------------------------
(* JavaScript string primitives *)

Whitespace == {" "}

LowerChar(c) ==
    CASE c = "A" -> "a"
      [] c = "B" -> "b"
      [] c = "C" -> "c"
      [] c = "L" -> "l"
      [] c = "T" -> "t"
      [] c = "Z" -> "z"
      [] OTHER -> c

toLowerCase(s) == [i \in 1..Len(s) |-> LowerChar(s[i])]

RECURSIVE trimStart(_)
trimStart(s) ==
    IF s # <<>> /\ Head(s) \in Whitespace THEN trimStart(Tail(s)) ELSE s

RECURSIVE trimEnd(_)
trimEnd(s) ==
    IF s # <<>> /\ s[Len(s)] \in Whitespace
    THEN trimEnd(SubSeq(s, 1, Len(s) - 1))
    ELSE s

trim(s) == trimEnd(trimStart(s))

\* the start positions at which pat occurs in s
Occurrences(s, pat) ==
    {i \in 1..(Len(s) - Len(pat) + 1) : SubSeq(s, i, i + Len(pat) - 1) = pat}

\* s.includes(sub)
includes(s, sub) == Occurrences(s, sub) # {}

Min(S) == CHOOSE x \in S : \A y \in S : x <= y

\* s.replace(pat, '') with a string pattern: the first occurrence only
replaceFirst(s, pat) ==
    IF Occurrences(s, pat) = {}
    THEN s
    ELSE LET i == Min(Occurrences(s, pat))
         IN  SubSeq(s, 1, i - 1) \o SubSeq(s, i + Len(pat), Len(s))

-----------------------------------------------------------------------------
(* JavaScript Date primitives *)

NaN == -1     \* what getMonth returns for an Invalid Date; no month is negative

IsLeap(y) == (y % 4 = 0 /\ y % 100 # 0) \/ y % 400 = 0

DaysIn(y, m) ==
    IF m = 2 THEN (IF IsLeap(y) THEN 29 ELSE 28)
    ELSE IF m \in {4, 6, 9, 11} THEN 30 ELSE 31

\* the local calendar date <<y, m, d>> of the instant y-m-d h:00 UTC
LocalDate(y, m, d, h, tz) ==
    IF h + tz < 0
    THEN IF d > 1 THEN <<y, m, d - 1>>
         ELSE IF m > 1 THEN <<y, m - 1, DaysIn(y, m - 1)>>
         ELSE <<y - 1, 12, 31>>
    ELSE IF h + tz >= 24
    THEN IF d < DaysIn(y, m) THEN <<y, m, d + 1>>
         ELSE IF m < 12 THEN <<y, m + 1, 1>>
         ELSE <<y + 1, 1, 1>>
    ELSE <<y, m, d>>

\* new Date(date).getMonth(): the zero-based month in local time
getMonth(date, tz) ==
    IF date.kind = "bad" THEN NaN
    ELSE LocalDate(date.y, date.m, date.d, date.h, tz)[2] - 1

\* a !== b on numbers: NaN is unequal to everything, itself included
StrictNotEqual(a, b) == a = NaN \/ b = NaN \/ a # b

\* the date string compared whole, without split('T')
splitNothing(date) ==
    IF date.kind = "bad" THEN <<0, 0, 0, date.txt>>
    ELSE <<date.y, date.m, date.d, date.kind, date.h>>

\* date.split('T')[0]: the text before the first 'T'
splitT0(date) ==
    IF date.kind = "bad" THEN <<0, 0, 0, date.txt>>
    ELSE <<date.y, date.m, date.d, "">>

-----------------------------------------------------------------------------
(* JavaScript numbers: IEEE 754 double precision, round to nearest even.   *)
(* A natural number is a sequence of 15-bit limbs, least significant       *)
(* first, its last limb not 0 (zero is the empty sequence). A double is    *)
(* [m, e]: the value m * 2^(-e), m a natural of at most 53 bits. The       *)
(* amounts of the model are far from the overflow and subnormal ranges.    *)

LimbBits == 15
Base == 2 ^ LimbBits
MantissaBits == 53

RECURSIVE BigOfInt(_)
BigOfInt(n) == IF n = 0 THEN <<>> ELSE <<n % Base>> \o BigOfInt(n \div Base)

RECURSIVE BigNorm(_)
BigNorm(b) ==
    IF b # <<>> /\ b[Len(b)] = 0 THEN BigNorm(SubSeq(b, 1, Len(b) - 1)) ELSE b

Limb(b, i) == IF 1 <= i /\ i <= Len(b) THEN b[i] ELSE 0

\* the number of bits of b
BitLen(b) ==
    IF b = <<>> THEN 0
    ELSE LimbBits * (Len(b) - 1)
         + (CHOOSE k \in 1..LimbBits : 2 ^ (k - 1) <= b[Len(b)] /\ b[Len(b)] < 2 ^ k)

\* b * 2^k
BigShl(b, k) ==
    LET w == k \div LimbBits
        s == k % LimbBits
    IN  BigNorm([i \in 1..(Len(b) + w + 1) |->
                    ((Limb(b, i - w) * 2 ^ s) % Base)
                    + (Limb(b, i - w - 1) \div 2 ^ (LimbBits - s))])

\* b \div 2^k
BigShr(b, k) ==
    LET w == k \div LimbBits
        s == k % LimbBits
    IN  BigNorm([i \in 1..(Len(b) - w) |->
                    (Limb(b, i + w) \div 2 ^ s)
                    + ((Limb(b, i + w + 1) % 2 ^ s) * 2 ^ (LimbBits - s))])

\* bit k of b, bit 0 the least significant
BigBit(b, k) == (Limb(b, k \div LimbBits + 1) \div 2 ^ (k % LimbBits)) % 2

\* whether the k lowest bits of b are all 0
BigLowZero(b, k) == BigShl(BigShr(b, k), k) = b

BigLess(a, b) ==
    IF Len(a) # Len(b) THEN Len(a) < Len(b)
    ELSE \E i \in 1..Len(a) :
            /\ a[i] < b[i]
            /\ \A j \in (i + 1)..Len(a) : a[j] = b[j]

\* the limbs i.. of a - b - borrow, for a >= b
RECURSIVE BigSubFrom(_, _, _, _)
BigSubFrom(a, b, i, borrow) ==
    IF i > Len(a) THEN <<>>
    ELSE LET d == a[i] - Limb(b, i) - borrow
         IN  <<(d + Base) % Base>>
             \o BigSubFrom(a, b, i + 1, IF d < 0 THEN 1 ELSE 0)

BigSub(a, b) == BigNorm(BigSubFrom(a, b, 1, 0))

RECURSIVE BigInc(_)
BigInc(b) ==
    IF b = <<>> THEN <<1>>
    ELSE IF Head(b) < Base - 1 THEN <<Head(b) + 1>> \o Tail(b)
    ELSE <<0>> \o BigInc(Tail(b))

\* quotient and remainder of b divided by the small number den: long
\* division from the most significant limb, the limbs above i already
\* divided with quotient q and remainder r
RECURSIVE BigDivFrom(_, _, _, _, _)
BigDivFrom(b, i, den, q, r) ==
    IF i = 0 THEN [q |-> BigNorm(q), r |-> r]
    ELSE BigDivFrom(b, i - 1, den,
                    <<(r * Base + b[i]) \div den>> \o q,
                    (r * Base + b[i]) % den)

BigDiv(b, den) == BigDivFrom(b, Len(b), den, <<>>, 0)

\* the double nearest to n / den: a decimal literal as parseFloat, Number
\* and JSON.parse read it (den at most 1000)
NearestDouble(n, den) ==
    IF n = 0 THEN [m |-> <<>>, e |-> 0]
    ELSE LET nb == BigOfInt(n)
             e1 == MantissaBits + BitLen(BigOfInt(den)) - BitLen(nb)
             e == IF BitLen(BigDiv(BigShl(nb, e1), den).q) > MantissaBits
                  THEN e1 - 1 ELSE e1
             d == BigDiv(BigShl(nb, e), den)
             up == 2 * d.r > den \/ (2 * d.r = den /\ BigBit(d.q, 0) = 1)
         IN  [m |-> IF up THEN BigInc(d.q) ELSE d.q, e |-> e]

\* the natural D * 2^(-E) rounded to a double
RoundToDouble(D, E) ==
    IF BitLen(D) <= MantissaBits THEN [m |-> D, e |-> E]
    ELSE LET s == BitLen(D) - MantissaBits
             q == BigShr(D, s)
             up == /\ BigBit(D, s - 1) = 1
                   /\ (~BigLowZero(D, s - 1) \/ BigBit(q, 0) = 1)
         IN  [m |-> IF up THEN BigInc(q) ELSE q, e |-> E - s]

MaxOf(x, y) == IF x >= y THEN x ELSE y

\* Math.abs(a - b) on doubles
AbsDifference(a, b) ==
    LET E == MaxOf(a.e, b.e)
        A == BigShl(a.m, E - a.e)
        B == BigShl(b.m, E - b.e)
    IN  RoundToDouble(IF BigLess(A, B) THEN BigSub(B, A) ELSE BigSub(A, B), E)

\* a < b on doubles that are not negative
LessThan(a, b) ==
    LET E == MaxOf(a.e, b.e)
    IN  BigLess(BigShl(a.m, E - a.e), BigShl(b.m, E - b.e))

\* an amount of the model (thousandths of a dollar) as the number it is
NumberOf(amount) == NearestDouble(amount, 1000)

\* Math.abs(x - y) < tolerance, every number rounded as the machine rounds it
RoundedBelow(x, y, tolerance) ==
    LessThan(AbsDifference(NumberOf(x), NumberOf(y)), NumberOf(tolerance))

\* Math.abs(x - y) < tolerance. Rounding moves an amount below 2^31
\* thousandths by less than 2^-31 dollars and amounts are whole thousandths,
\* so the rounding decides only for amounts exactly tolerance apart
AbsDifferenceBelow(x, y, tolerance) ==
    LET apart == IF x < y THEN y - x ELSE x - y
    IN  IF apart # tolerance THEN apart < tolerance
        ELSE RoundedBelow(x, y, tolerance)

-----------------------------------------------------------------------------
(* Types (src/unnamed/part_000) *)

TransactionType == {"income", "fixed_bill", "flexible_bill", "spending"}

Tx(id, date, merchant, amount, type, category) ==
    [id |-> id, date |-> date, merchant |-> merchant, amount |-> amount,
     type |-> type, category |-> category]

-----------------------------------------------------------------------------
(* The import reconciliation of addTransactions *)

DupTolerance == 10          \* 0.01 dollars
RecurTolerance == 10000     \* 10.00 dollars

\* the amounts the records of the model carry
AmountValues ==
    {-5000, 0, 20, 30, 4340, 4350, 6080, 12500, 16080, 90000, 90010, 100000,
     100004, 100010, 100020, 109990, 110000, 120000}

\* Math.abs(x - y) < tolerance computed once for every pair of amounts
WithinTolerance ==
    [x \in AmountValues, y \in AmountValues,
     tolerance \in {DupTolerance, RecurTolerance} |->
        AbsDifferenceBelow(x, y, tolerance)]

ZelleTo == <<"z", "e", "l", "l", "e", " ", "t", "o", " ">>
ZelleTransferTo == <<"z", "e", "l", "l", "e", " ", "t", "r", "a", "n", "s", "f", "e", "r", " ", "t", "o", " ">>
TransferTo == <<"t", "r", "a", "n", "s", "f", "e", "r", " ", "t", "o", " ">>

\* isDuplicate with the record types compared as well
isDuplicateSameType(existingTx, newTx) ==
    /\ splitT0(existingTx.date) = splitT0(newTx.date)
    /\ WithinTolerance[existingTx.amount, newTx.amount, DupTolerance]
    /\ trim(toLowerCase(existingTx.merchant)) = trim(toLowerCase(newTx.merchant))
    /\ existingTx.type = newTx.type

\* isDuplicate never matching a record against one with its own id
isDuplicateOtherId(existingTx, newTx) ==
    /\ existingTx.id # newTx.id
    /\ splitT0(existingTx.date) = splitT0(newTx.date)
    /\ WithinTolerance[existingTx.amount, newTx.amount, DupTolerance]
    /\ trim(toLowerCase(existingTx.merchant)) = trim(toLowerCase(newTx.merchant))

\* the predicate of prev.some in step 1
isDuplicate(existingTx, newTx) ==
    /\ splitT0(existingTx.date) = splitT0(newTx.date)
    /\ WithinTolerance[existingTx.amount, newTx.amount, DupTolerance]
    /\ trim(toLowerCase(existingTx.merchant)) = trim(toLowerCase(newTx.merchant))

\* the filter written as a loop that starts at index 1 instead of 0
dedupeFromSecond(prev, newTransactions) ==
    LET keep(newTx) ==
            ~ \E k \in 1..Len(prev) : isDuplicate(prev[k], newTx)
    IN  IF newTransactions = <<>> THEN <<>>
        ELSE SelectSeq(Tail(newTransactions), keep)

\* step 1: newTransactions.filter(newTx => !prev.some(isDuplicate))
dedupe(prev, newTransactions) ==
    LET keep(newTx) ==
            ~ \E k \in 1..Len(prev) : isDuplicate(prev[k], newTx)
    IN  SelectSeq(newTransactions, keep)

StartsWith(s, pat) == Len(s) >= Len(pat) /\ SubSeq(s, 1, Len(pat)) = pat

DropPrefix(s, pat) == SubSeq(s, Len(pat) + 1, Len(s))

\* cleanName stripping one of the three strings, and only as a prefix
cleanNamePrefixOnly(name) ==
    LET s == toLowerCase(name)
    IN  trim(IF StartsWith(s, ZelleTo) THEN DropPrefix(s, ZelleTo)
             ELSE IF StartsWith(s, ZelleTransferTo) THEN DropPrefix(s, ZelleTransferTo)
             ELSE IF StartsWith(s, TransferTo) THEN DropPrefix(s, TransferTo)
             ELSE s)

cleanName(name) ==
    trim(replaceFirst(replaceFirst(replaceFirst(toLowerCase(name),
                                                ZelleTo),
                                   ZelleTransferTo),
                      TransferTo))

nameMatch(prevName, currentName) ==
    \/ prevName = currentName
    \/ includes(prevName, currentName)
    \/ includes(currentName, prevName)

amountMatch(existingTx, tx) ==
    WithinTolerance[existingTx.amount, tx.amount, RecurTolerance]

differentMonth(existingTx, tx, tz) ==
    StrictNotEqual(getMonth(existingTx.date, tz), getMonth(tx.date, tz))

\* the predicate of prev.some in step 2
recurringEvidence(existingTx, tx, tz) ==
    IF existingTx.type = "income" THEN FALSE
    ELSE /\ nameMatch(cleanName(existingTx.merchant), cleanName(tx.merchant))
         /\ amountMatch(existingTx, tx)
         /\ differentMonth(existingTx, tx, tz)

isRecurring(prev, tx, tz) ==
    \E k \in 1..Len(prev) : recurringEvidence(prev[k], tx, tz)

\* classify without the early return for income
classifyIncomeToo(prev, tx, tz) ==
    IF isRecurring(prev, tx, tz) THEN [tx EXCEPT !.type = "fixed_bill"]
    ELSE tx

\* classify assigning the type from the match alone
classifyFromMatchOnly(prev, tx, tz) ==
    IF tx.type = "income" THEN tx
    ELSE IF isRecurring(prev, tx, tz) THEN [tx EXCEPT !.type = "fixed_bill"]
    ELSE [tx EXCEPT !.type = "flexible_bill"]

\* the function mapped over uniqueNew in step 2
classify(prev, tx, tz) ==
    IF tx.type = "income" THEN tx
    ELSE IF isRecurring(prev, tx, tz) THEN [tx EXCEPT !.type = "fixed_bill"]
    ELSE tx

\* the recurrence search run over the batch as well as the history
classifyRecurringWithBatch(prev, batch, tz) ==
    [i \in 1..Len(batch) |-> classify(batch \o prev, batch[i], tz)]

classifyRecurring(prev, batch, tz) ==
    [i \in 1..Len(batch) |-> classify(prev, batch[i], tz)]

\* the updater returning [...prev, ...processedNew]
mergeResultAppended(processed, prev) == prev \o processed

\* the new state returned by the updater: [...processedNew, ...prev]
mergeResult(processed, prev) == processed \o prev

-----------------------------------------------------------------------------
(* The values the model draws its inputs from *)

MaxId == 3       \* ids handed out in one run

TimeZones == {-5, 0}

Day(y, m, d) == [kind |-> "day", y |-> y, m |-> m, d |-> d, h |-> 0, txt |-> ""]
Ts(y, m, d, h) == [kind |-> "ts", y |-> y, m |-> m, d |-> d, h |-> h, txt |-> ""]
Bad(txt) == [kind |-> "bad", y |-> 0, m |-> 0, d |-> 0, h |-> 0, txt |-> txt]

BaseDate == Day(2024, 1, 15)
Dates ==
    { BaseDate,
      Day(2024, 2, 15),        \* the next month
      Day(2024, 2, 1),         \* the next month, its first day
      Day(2025, 1, 15),        \* same month number, another year
      Bad("n/a") }

BaseMerchant == <<"A", "l">>
Merchants ==
    { BaseMerchant,
      <<" ", "a", "L", " ">>,
      <<"B", "o">> }

BaseAmount == 100000
Amounts == {BaseAmount, 100010, 100020}

BaseType == "spending"
ItemTypes == {BaseType, "income", "fixed_bill"}

CategoryOf(type) ==
    CASE type = "income" -> "Income"
      [] type = "fixed_bill" -> "Housing"
      [] OTHER -> "Other"

\* records without an id: the base record with one field varied at a time
Item(date, merchant, amount, type) ==
    [date |-> date, merchant |-> merchant, amount |-> amount, type |-> type,
     category |-> CategoryOf(type)]

Items ==
    {Item(d, BaseMerchant, BaseAmount, BaseType) : d \in Dates}
    \cup {Item(BaseDate, m, BaseAmount, BaseType) : m \in Merchants}
    \cup {Item(BaseDate, BaseMerchant, a, BaseType) : a \in Amounts}
    \cup {Item(BaseDate, BaseMerchant, BaseAmount, t) : t \in ItemTypes}

\* confirmImport calls addTransactions only with a non-empty batch
ItemSeqs(n) == [1..n -> Items]

\* uuidv4(): the items get the ids first, first + 1, ...
WithIds(items, first) ==
    [i \in 1..Len(items) |->
        Tx(first + i - 1, items[i].date, items[i].merchant, items[i].amount,
           items[i].type, items[i].category)]

\* what the entry form submits: the date is new Date().toISOString()
FormItems == {Item(Ts(2024, 1, 15, 22), BaseMerchant, BaseAmount, BaseType)}

-----------------------------------------------------------------------------
(* The store: App's transactions state and its four operations *)

StoreInit ==
    /\ transactions = <<>>
    /\ tzOffset \in TimeZones
    /\ nextId = 0
    /\ lastOp = "none"
    /\ lastBatch = <<>>
    /\ lastPrev = <<>>
    /\ uniqueNew = <<>>
    /\ processedNew = <<>>

CleanIdle ==
    /\ cnIn = <<>>
    /\ cnOut = <<>>
    /\ cnDone = FALSE

PairIdle ==
    /\ pairIn = <<>>
    /\ pairOut = <<>>
    /\ pairDone = FALSE

UiIdle ==
    /\ editingId = 0
    /\ editForm = <<>>
    /\ deletingId = 0
    /\ applied = <<>>

\* useState('') twice, useState('spending'), useState(CategoryEnum.Other),
\* useState(false)
FormReset ==
    [merchant |-> <<>>, amount |-> <<>>, type |-> "spending",
     category |-> "Other", isClassifying |-> FALSE,
     isAnalyzingReceipt |-> FALSE]

NoScan == [stage |-> "none", amount |-> <<>>]

NoRecord == [via |-> "none", type |-> "spending", category |-> "Other"]

FormIdle ==
    /\ form = FormReset
    /\ scan = NoScan
    /\ created = NoRecord

\* the history loaded and saved, nothing queued
AppIdle ==
    /\ isLoading = FALSE
    /\ persisted = <<>>
    /\ queued = <<>>
    /\ effects = <<>>

\* useState(null), useState(false), useState([]); no file selected yet
ModalIdle ==
    /\ importType = "none"
    /\ isAnalyzingFile = FALSE
    /\ parsedItems = <<>>
    /\ files = <<>>
    /\ session = 0

Init ==
    StoreInit /\ CleanIdle /\ PairIdle /\ UiIdle /\ FormIdle /\ AppIdle /\ ModalIdle

\* setTransactions(prev => [transaction, ...prev])
AddTransaction ==
    \E it \in FormItems :
        /\ nextId < MaxId
        /\ Len(transactions) < MaxHist
        /\ transactions' = <<Tx(nextId + 1, it.date, it.merchant, it.amount,
                                it.type, it.category)>> \o transactions
        /\ nextId' = nextId + 1
        /\ lastOp' = "addTransaction"
        /\ lastPrev' = transactions
        /\ UNCHANGED <<tzOffset, lastBatch, uniqueNew, processedNew>>
        /\ UNCHANGED outsideStore

\* the updater passed to setTransactions by addTransactions
Merge(newTransactions) ==
    LET prev == transactions
        unique == dedupe(prev, newTransactions)
        processed == classifyRecurring(prev, unique, tzOffset)
    IN  /\ Len(mergeResult(processed, prev)) <= MaxHist
        /\ transactions' = mergeResult(processed, prev)
        /\ uniqueNew' = unique
        /\ processedNew' = processed
        /\ lastOp' = "addTransactions"
        /\ lastBatch' = newTransactions
        /\ lastPrev' = prev
        /\ UNCHANGED tzOffset
        /\ UNCHANGED outsideStore

\* addTransactions called with a freshly reviewed batch
AddTransactions ==
    \E n \in 1..MaxBatch :
        /\ nextId + n <= MaxId
        /\ \E items \in ItemSeqs(n) :
            /\ nextId' = nextId + n
            /\ Merge(WithIds(items, nextId + 1))

\* addTransactions called again with the batch it was just given
AddTransactionsAgain ==
    /\ lastOp = "addTransactions"
    /\ UNCHANGED nextId
    /\ Merge(lastBatch)

Next ==
    \/ AddTransaction
    \/ AddTransactions
    \/ AddTransactionsAgain

Spec == Init /\ [][Next]_vars

-----------------------------------------------------------------------------
(* cleanName applied to one name at a time *)

NamePieces ==
    { <<"Z", "e", "l", "l", "e", " ", "t", "o", " ">>,
      <<"z", "e", "l", "l", "e", " ", "t", "r", "a", "n", "s", "f", "e", "r", " ", "t", "o", " ">>,
      <<"T", "r", "a", "n", "s", "f", "e", "r", " ", "t", "o", " ">>,
      <<"A", "l">>,
      <<"b", "o">>,
      <<" ">> }

RECURSIVE Concat(_)
Concat(ss) == IF ss = <<>> THEN <<>> ELSE Head(ss) \o Concat(Tail(ss))

CleanInputs ==
    {Concat(ps) : ps \in UNION {[1..n -> NamePieces] : n \in 0..MaxPieces}}

CleanInit ==
    /\ StoreInit
    /\ cnIn \in CleanInputs
    /\ cnOut = <<>>
    /\ cnDone = FALSE
    /\ PairIdle
    /\ UiIdle
    /\ FormIdle
    /\ AppIdle
    /\ ModalIdle

RunCleanName ==
    /\ ~cnDone
    /\ cnOut' = cleanName(cnIn)
    /\ cnDone' = TRUE
    /\ UNCHANGED cnIn
    /\ UNCHANGED outsideClean

SpecClean == CleanInit /\ [][RunCleanName]_vars

-----------------------------------------------------------------------------
(* The match tests of addTransactions applied to one existing record and   *)
(* one new record                                                          *)

OtherMonthDate == Day(2024, 2, 15)

PairDates ==
    { BaseDate,
      Ts(2024, 1, 15, 0),      \* the same day, stamped at midnight
      Ts(2024, 1, 15, 2),      \* the same day, early
      Ts(2024, 1, 15, 22),     \* the same day, late
      Ts(2024, 1, 14, 22),     \* the evening before
      Day(2024, 1, 16),        \* the next day
      Ts(2024, 1, 16, 2),      \* the next day, early
      OtherMonthDate,
      Day(2025, 1, 15),
      Bad("n/a") }

PairOf(date1, amount1, date2, amount2) ==
    << Tx(1, date1, BaseMerchant, amount1, BaseType, CategoryOf(BaseType)),
       Tx(2, date2, BaseMerchant, amount2, BaseType, CategoryOf(BaseType)) >>

\* two records that differ in the amount alone, two a month apart that
\* differ in the amount, two that differ in the date alone
PairInputs ==
    {PairOf(BaseDate, a, BaseDate, b) : a \in AmountValues, b \in AmountValues}
    \cup {PairOf(BaseDate, a, OtherMonthDate, b) :
                a \in AmountValues, b \in AmountValues}
    \cup {PairOf(d, BaseAmount, e, BaseAmount) : d \in PairDates, e \in PairDates}

PairInit ==
    /\ StoreInit
    /\ CleanIdle
    /\ pairIn \in PairInputs
    /\ pairOut = <<>>
    /\ pairDone = FALSE
    /\ UiIdle
    /\ FormIdle
    /\ AppIdle
    /\ ModalIdle

\* the predicates of the two prev.some calls, evaluated on the pair
RunMatchTests ==
    /\ ~pairDone
    /\ pairOut' = [isDuplicate |-> isDuplicate(pairIn[1], pairIn[2]),
                   amountMatch |-> amountMatch(pairIn[1], pairIn[2]),
                   isRecurring |-> recurringEvidence(pairIn[1], pairIn[2],
                                                     tzOffset)]
    /\ pairDone' = TRUE
    /\ UNCHANGED pairIn
    /\ UNCHANGED outsidePair

SpecPair == PairInit /\ [][RunMatchTests]_vars

-----------------------------------------------------------------------------
(* The store under its user interface: the entry form, the import modal    *)
(* and the editors and delete buttons of the list and of the dashboard.    *)
(* Every store operation passes an updater to setTransactions; when React  *)
(* renders next it applies the queued updaters in the order of the calls,  *)
(* each to the result of the one before. Handlers that run back to back,   *)
(* before the view has rendered again, all read the state last rendered.   *)

MaxBurst == 2    \* handlers run back to back before the view renders again

\* prev => [transaction, ...prev] with the filter of step 1 applied first
addTransactionDeduped(prev, transaction) ==
    dedupe(prev, <<transaction>>) \o prev

\* prev => [transaction, ...prev]
addTransaction(prev, transaction) == <<transaction>> \o prev

\* the updater of addTransactions
addTransactions(prev, newTransactions, tz) ==
    mergeResult(classifyRecurring(prev, dedupe(prev, newTransactions), tz), prev)

\* the updater adding updatedTx when no record has its id
updateTransactionOrAdd(prev, updatedTx) ==
    IF \E i \in 1..Len(prev) : prev[i].id = updatedTx.id
    THEN [i \in 1..Len(prev) |->
            IF prev[i].id = updatedTx.id THEN updatedTx ELSE prev[i]]
    ELSE <<updatedTx>> \o prev

\* prev => prev.map(t => t.id === updatedTx.id ? updatedTx : t)
updateTransaction(prev, updatedTx) ==
    [i \in 1..Len(prev) |->
        IF prev[i].id = updatedTx.id THEN updatedTx ELSE prev[i]]

\* the filter cutting the list at the record
deleteTransactionAndOlder(prev, id) ==
    IF \E i \in 1..Len(prev) : prev[i].id = id
    THEN SubSeq(prev, 1, (CHOOSE i \in 1..Len(prev) : prev[i].id = id) - 1)
    ELSE prev

\* prev => prev.filter(t => t.id !== id)
deleteTransaction(prev, id) ==
    LET keep(t) == t.id # id
    IN  SelectSeq(prev, keep)

\* a call of a store operation: the records passed, or the id passed
Call(op, txs, id) == [op |-> op, txs |-> txs, id |-> id]

\* the updater a store call queued, applied to prev
Updater(call, prev, tz) ==
    CASE call.op = "addTransaction" -> addTransaction(prev, call.txs[1])
      [] call.op = "addTransactions" -> addTransactions(prev, call.txs, tz)
      [] call.op = "updateTransaction" -> updateTransaction(prev, call.txs[1])
      [] call.op = "deleteTransaction" -> deleteTransaction(prev, call.id)

Step(call, prev, next) ==
    [op |-> call.op, txs |-> call.txs, id |-> call.id,
     prev |-> prev, next |-> next]

\* every queued updater applied to the state last rendered
ApplyQueuedToSnapshot(state, queue, tz) ==
    [i \in 1..Len(queue) |-> Step(queue[i], state, Updater(queue[i], state, tz))]

\* the queued updaters applied in order, each to the result of the one
\* before: the steps taken
RECURSIVE ApplyQueued(_, _, _)
ApplyQueued(state, queue, tz) ==
    IF queue = <<>> THEN <<>>
    ELSE CHOOSE steps \in
            {<<Step(Head(queue), state, next)>> \o ApplyQueued(next, Tail(queue), tz) :
                next \in {Updater(Head(queue), state, tz)}} : TRUE

\* what the import modal offers for review: a record the form also enters,
\* alone or with the same bill a month later (no more than MaxBatch records)
SameDayItem == Item(BaseDate, BaseMerchant, BaseAmount, BaseType)
NextMonthItem == Item(OtherMonthDate, BaseMerchant, BaseAmount, BaseType)
ReviewedBatches ==
    {b \in {<<SameDayItem>>, <<SameDayItem, NextMonthItem>>} : Len(b) <= MaxBatch}

\* what the user types into an editor (an amount of 0, like the NaN of an
\* emptied amount field, is falsy)
EditMerchants == {<<"B", "o">>, <<>>}
EditAmounts == {0}
EditDates == {Ts(2024, 1, 15, 0)}

\* the rows the dashboard tiles list: income and fixed bills
OnDashboard(t) == t.type \in {"income", "fixed_bill"}

Rendered(id) == \E i \in 1..Len(transactions) : transactions[i].id = id

\* the guard of handleSaveEdit and saveEdit; the button is in the record's row
CanSave ==
    /\ editingId # 0
    /\ Rendered(editingId)
    /\ editForm.merchant # <<>>
    /\ editForm.amount # 0

Press(h, call, fresh) == [h |-> h, call |-> call, fresh |-> fresh]

NoPress == Press("none", Call("none", <<>>, 0), 0)

\* the handlers the rendered view lets run that call the store, uuidv4
\* handing out ids from first on
Presses(first) ==
    {Press("handleSubmit",
           Call("addTransaction",
                <<Tx(first, it.date, it.merchant, it.amount, it.type, it.category)>>,
                0),
           1) : it \in {i \in FormItems : first <= MaxId}}
    \cup {Press("confirmImport",
                Call("addTransactions", WithIds(items, first), 0), Len(items)) :
                items \in {b \in ReviewedBatches : first + Len(b) - 1 <= MaxId}}
    \cup {Press("handleSaveEdit", Call("updateTransaction", <<editForm>>, 0), 0) :
                x \in {y \in {1} : CanSave}}
    \cup {Press("confirmDelete", Call("deleteTransaction", <<>>, deletingId), 0) :
                x \in {y \in {1} : deletingId # 0}}
    \cup {Press("onDeleteTransaction",
                Call("deleteTransaction", <<>>, transactions[i].id), 0) :
                i \in {j \in 1..Len(transactions) : OnDashboard(transactions[j])}}

\* the sequences of n handlers that can run back to back, shown being the
\* confirmation already run: until the view renders again the import modal
\* shows the same reviewed batch, ids included
RECURSIVE Bursts(_, _, _)
Bursts(n, first, shown) ==
    IF n = 0 THEN {<<>>}
    ELSE LET available ==
                {q \in Presses(first) :
                    q.h # "confirmImport" \/ shown.h = "none"}
                \cup {[q EXCEPT !.fresh = 0] :
                        q \in {r \in {shown} : r.h # "none"}}
         IN  UNION {{<<p>> \o rest :
                        rest \in Bursts(n - 1, first + p.fresh,
                                        IF p.h = "confirmImport" THEN p ELSE shown)} :
                    p \in available}

RECURSIVE FreshIds(_)
FreshIds(ps) == IF ps = <<>> THEN 0 ELSE Head(ps).fresh + FreshIds(Tail(ps))

\* the handlers of ps run against the rendered state; the render that
\* follows applies what they queued
Run(ps) ==
    [ps |-> ps,
     steps |-> ApplyQueued(transactions, [i \in 1..Len(ps) |-> ps[i].call], tzOffset)]

Has(ps, h) == \E i \in 1..Len(ps) : ps[i].h = h

Render(run) ==
    /\ Len(run.steps[Len(run.steps)].next) <= MaxHist
    /\ transactions' = run.steps[Len(run.steps)].next
    /\ applied' = run.steps
    /\ nextId' = nextId + FreshIds(run.ps)
    /\ editingId' = IF Has(run.ps, "handleSaveEdit") THEN 0 ELSE editingId
    /\ editForm' = IF Has(run.ps, "handleSaveEdit") THEN <<>> ELSE editForm
    /\ deletingId' = IF Has(run.ps, "confirmDelete") THEN 0 ELSE deletingId
    /\ UNCHANGED tzOffset
    /\ UNCHANGED outsideUi

\* the ways handler h can run alone
Single(h) == {Run(ps) : ps \in {b \in Bursts(1, nextId + 1, NoPress) : b[1].h = h}}

\* TransactionForm: handleSubmit calls addTransaction
HandleSubmit == \E run \in Single("handleSubmit") : Render(run)

\* SmartImports: confirmImport calls addTransactions
ConfirmImport == \E run \in Single("confirmImport") : Render(run)

\* TransactionList: handleSaveEdit; Dashboard: saveEdit
HandleSaveEdit == \E run \in Single("handleSaveEdit") : Render(run)

\* TransactionList: confirmDelete
ConfirmDelete == \E run \in Single("confirmDelete") : Render(run)

\* Dashboard: the delete button of a row
DashboardDelete == \E run \in Single("onDeleteTransaction") : Render(run)

\* several handlers run before the view renders again
BackToBack ==
    \E n \in 2..MaxBurst :
        \E run \in {Run(ps) : ps \in Bursts(n, nextId + 1, NoPress)} : Render(run)

UiOnly ==
    /\ applied' = <<>>
    /\ UNCHANGED <<transactions, tzOffset, nextId>>
    /\ UNCHANGED outsideUi

\* TransactionList: handleEditClick (the delete modal covers the list)
HandleEditClick ==
    \E i \in 1..Len(transactions) :
        /\ deletingId = 0
        /\ editingId # transactions[i].id
        /\ editingId' = transactions[i].id
        /\ editForm' = transactions[i]
        /\ UNCHANGED deletingId
        /\ UiOnly

\* Dashboard: startEdit
StartEdit ==
    \E i \in 1..Len(transactions) :
        /\ OnDashboard(transactions[i])
        /\ editingId # transactions[i].id
        /\ editingId' = transactions[i].id
        /\ editForm' = transactions[i]
        /\ UNCHANGED deletingId
        /\ UiOnly

\* the onChange handlers of the three inputs of an editor
ChangeEdit ==
    /\ editingId # 0
    /\ Rendered(editingId)
    /\ \/ \E m \in EditMerchants : editForm' = [editForm EXCEPT !.merchant = m]
       \/ \E a \in EditAmounts : editForm' = [editForm EXCEPT !.amount = a]
       \/ \E d \in EditDates : editForm' = [editForm EXCEPT !.date = d]
    /\ UNCHANGED <<editingId, deletingId>>
    /\ UiOnly

\* TransactionList: handleCancelEdit; Dashboard: Cancel
HandleCancelEdit ==
    /\ editingId # 0
    /\ editingId' = 0
    /\ editForm' = <<>>
    /\ UNCHANGED deletingId
    /\ UiOnly

\* TransactionList: handleDeleteClick
HandleDeleteClick ==
    \E i \in 1..Len(transactions) :
        /\ deletingId = 0
        /\ deletingId' = transactions[i].id
        /\ UNCHANGED <<editingId, editForm>>
        /\ UiOnly

\* TransactionList: cancelDelete
CancelDelete ==
    /\ deletingId # 0
    /\ deletingId' = 0
    /\ UNCHANGED <<editingId, editForm>>
    /\ UiOnly

NextStore ==
    \/ HandleSubmit
    \/ ConfirmImport
    \/ HandleSaveEdit
    \/ ConfirmDelete
    \/ DashboardDelete
    \/ BackToBack
    \/ HandleEditClick
    \/ StartEdit
    \/ ChangeEdit
    \/ HandleCancelEdit
    \/ HandleDeleteClick
    \/ CancelDelete

\* no date of this specification is within a day of the end of a month, so
\* that every time zone reads the same months: one stands for all
StoreUiInit == Init /\ tzOffset = 0

SpecStore == StoreUiInit /\ [][NextStore]_vars

-----------------------------------------------------------------------------
(* TransactionForm and SmartImports: the type and category of what they create *)

\* CategoryEnum, of which the form below uses one category for each type
\* handleMerchantBlur derives
CategoryEnum ==
    {"Food & Dining", "Housing", "Utilities", "Transportation",
     "Health & Fitness", "Personal Care", "Entertainment", "Shopping", "Pet",
     "Income", "Other"}

FormCategories == {"Food & Dining", "Housing", "Income", "Other"}

\* what the user types into the merchant and amount fields
MerchantTexts == {<<>>, <<"A", "c", "m", "e">>}
AmountTexts == {<<>>, <<"1", "2">>}

\* the type handleMerchantBlur sets for a suggested category
typeFor(suggestedCategory) ==
    IF suggestedCategory = "Income" THEN "income"
    ELSE IF suggestedCategory \in {"Housing", "Utilities"} THEN "fixed_bill"
    ELSE IF suggestedCategory \in
            {"Food & Dining", "Shopping", "Entertainment", "Personal Care"}
         THEN "spending"
    ELSE "flexible_bill"

\* useEffect(() => { if (type === 'income') setCategory(Income) }, [type]):
\* it runs after a render in which type differs from the render before
typeEffect(typeBefore, f) ==
    IF f.type # typeBefore /\ f.type = "income"
    THEN [f EXCEPT !.category = "Income"]
    ELSE f

\* item.type || 'spending' and item.category || 'Other', "" being a missing
\* field
Imported(via, item) ==
    [via |-> via,
     type |-> IF item.type = "" THEN "spending" ELSE item.type,
     category |-> IF item.category = "" THEN "Other" ELSE item.category]

\* what analyzeBankStatement can return for the type and category of a row:
\* a type of the schema's enum and any string, or a field missing
StatementRows ==
    [type : TransactionType \cup {""}, category : FormCategories \cup {""}]

\* the row handleFileSelect builds for a paystub
PaystubRow == [type |-> "income", category |-> "Income"]

FormStep ==
    /\ UNCHANGED <<transactions, tzOffset, nextId>>
    /\ UNCHANGED outsideForm

\* onChange of the merchant input
ChangeMerchant ==
    \E m \in MerchantTexts :
        /\ form' = [form EXCEPT !.merchant = m]
        /\ UNCHANGED <<scan, created>>
        /\ FormStep

\* onChange of the amount input
ChangeAmount ==
    \E a \in AmountTexts :
        /\ form' = [form EXCEPT !.amount = a]
        /\ UNCHANGED <<scan, created>>
        /\ FormStep

\* onChange of the type select, and the effect after the render
SelectType ==
    \E t \in TransactionType :
        /\ form' = typeEffect(form.type, [form EXCEPT !.type = t])
        /\ UNCHANGED <<scan, created>>
        /\ FormStep

\* onChange of the category select, disabled while type is income
SelectCategory ==
    \E c \in FormCategories :
        /\ form.type # "income"
        /\ form' = [form EXCEPT !.category = c]
        /\ UNCHANGED <<scan, created>>
        /\ FormStep

\* handleMerchantBlur up to its await
HandleMerchantBlur ==
    /\ Len(trim(form.merchant)) > 2
    /\ ~ form.isClassifying
    /\ ~ form.isAnalyzingReceipt
    /\ form' = [form EXCEPT !.isClassifying = TRUE]
    /\ UNCHANGED <<scan, created>>
    /\ FormStep

\* handleMerchantBlur after its await: classifyTransaction has answered
MerchantClassified ==
    \E suggestedCategory \in FormCategories :
        /\ form.isClassifying
        /\ form' = typeEffect(form.type,
                              [form EXCEPT !.category = suggestedCategory,
                                           !.type = typeFor(suggestedCategory),
                                           !.isClassifying = FALSE])
        /\ UNCHANGED <<scan, created>>
        /\ FormStep

\* handleFileUpload: setIsAnalyzingReceipt(true), the reader started that
\* will hand the receipt to parseReceipt, and in the finally of the same
\* call setIsAnalyzingReceipt(false)
HandleFileUpload ==
    /\ scan.stage = "none"
    /\ scan' = [stage |-> "parsing", amount |-> <<>>]
    /\ form' = [form EXCEPT !.isAnalyzingReceipt = FALSE]
    /\ UNCHANGED created
    /\ FormStep

\* reader.onloadend after parseReceipt: null, or merchant and amount as read
ReceiptParsed ==
    /\ scan.stage = "parsing"
    /\ \/ /\ scan' = NoScan
          /\ UNCHANGED form
       \/ \E m \in MerchantTexts, a \in AmountTexts :
            IF m # <<>>
            THEN /\ form' = [form EXCEPT !.merchant = m]
                 /\ scan' = [stage |-> "classifying", amount |-> a]
            ELSE /\ form' = IF a # <<>> THEN [form EXCEPT !.amount = a] ELSE form
                 /\ scan' = NoScan
    /\ UNCHANGED created
    /\ FormStep

\* reader.onloadend after classifyTransaction: setCategory(cat), then the
\* amount
ReceiptClassified ==
    \E cat \in FormCategories :
        /\ scan.stage = "classifying"
        /\ form' = [form EXCEPT !.category = cat,
                                !.amount = IF scan.amount # <<>> THEN scan.amount ELSE @]
        /\ scan' = NoScan
        /\ UNCHANGED created
        /\ FormStep

\* handleSubmit, its button disabled while isAnalyzingReceipt: the record
\* is created from the fields, the fields are reset
FormSubmit ==
    /\ ~ form.isAnalyzingReceipt
    /\ form.merchant # <<>>
    /\ form.amount # <<>>
    /\ created' = [via |-> "form", type |-> form.type, category |-> form.category]
    /\ form' = [FormReset EXCEPT !.isClassifying = form.isClassifying,
                                !.isAnalyzingReceipt = form.isAnalyzingReceipt]
    /\ UNCHANGED scan
    /\ FormStep

\* confirmImport of a reviewed bank statement, for one of its rows
ConfirmStatement ==
    \E row \in StatementRows :
        /\ created' = Imported("statement", row)
        /\ UNCHANGED <<form, scan>>
        /\ FormStep

\* confirmImport of a reviewed paystub
ConfirmPaystub ==
    /\ created' = Imported("paystub", PaystubRow)
    /\ UNCHANGED <<form, scan>>
    /\ FormStep

NextForm ==
    \/ ChangeMerchant
    \/ ChangeAmount
    \/ SelectType
    \/ SelectCategory
    \/ HandleMerchantBlur
    \/ MerchantClassified
    \/ HandleFileUpload
    \/ ReceiptParsed
    \/ ReceiptClassified
    \/ FormSubmit
    \/ ConfirmStatement
    \/ ConfirmPaystub

SpecForm == Init /\ [][NextForm]_vars

-----------------------------------------------------------------------------
(* App: the load effect and the save effect *)

\* what the storage can hold when the application starts
StoredLists ==
    {<<>>,
     WithIds(<<SameDayItem>>, 1),
     WithIds(<<NextMonthItem, SameDayItem>>, 1)}

\* storageService.loadTransactions: the list saved last
loadTransactions(stored) == stored

\* storageService.saveTransactions: the list given replaces what was stored
saveTransactions(stored, list) == list

\* the save effect without its test of isLoading
saveEffectAlways(loading, list, stored) == saveTransactions(stored, list)

\* if (!isLoading) saveTransactions(transactions)
saveEffect(loading, list, stored) ==
    IF ~ loading THEN saveTransactions(stored, list) ELSE stored

\* one queued update applied to the state of App
AppUpdate(update, state, tz) ==
    IF update.op = "load"
    THEN [transactions |-> update.txs, isLoading |-> FALSE]
    ELSE [transactions |-> Updater(update, state.transactions, tz),
          isLoading |-> state.isLoading]

\* the queued updates applied in order
RECURSIVE AppState(_, _, _)
AppState(state, updates, tz) ==
    IF updates = <<>> THEN state
    ELSE CHOOSE final \in
            {AppState(next, Tail(updates), tz) :
                next \in {AppUpdate(Head(updates), state, tz)}} : TRUE

\* the state of App once everything queued is applied
Pending == AppState([transactions |-> transactions, isLoading |-> isLoading],
                    queued, tzOffset)

\* the first render is committed: useState([]), useState(true), both effects
\* waiting, and ids 1..nextId in use by what is stored
AppInit ==
    /\ transactions = <<>>
    /\ tzOffset \in TimeZones
    /\ persisted \in StoredLists
    /\ nextId = Len(persisted)
    /\ lastOp = "none"
    /\ lastBatch = <<>>
    /\ lastPrev = <<>>
    /\ uniqueNew = <<>>
    /\ processedNew = <<>>
    /\ isLoading = TRUE
    /\ queued = <<>>
    /\ effects = <<"load", "save">>
    /\ CleanIdle
    /\ PairIdle
    /\ UiIdle
    /\ FormIdle
    /\ ModalIdle

\* the load effect: setTransactions(loadTransactions()); setIsLoading(false)
LoadEffect ==
    /\ effects # <<>>
    /\ Head(effects) = "load"
    /\ queued' = Append(queued, Call("load", loadTransactions(persisted), 0))
    /\ effects' = Tail(effects)
    /\ UNCHANGED <<transactions, tzOffset, nextId, isLoading, persisted>>
    /\ UNCHANGED outsideApp

\* the save effect, with the transactions and isLoading of its render
SaveEffect ==
    /\ effects # <<>>
    /\ Head(effects) = "save"
    /\ persisted' = saveEffect(isLoading, transactions, persisted)
    /\ effects' = Tail(effects)
    /\ UNCHANGED <<transactions, tzOffset, nextId, isLoading, queued>>
    /\ UNCHANGED outsideApp

\* the render after state updates: transactions or isLoading is a new value,
\* so the save effect is due
Rerender ==
    /\ effects = <<>>
    /\ queued # <<>>
    /\ transactions' = Pending.transactions
    /\ isLoading' = Pending.isLoading
    /\ queued' = <<>>
    /\ effects' = <<"save">>
    /\ UNCHANGED <<tzOffset, nextId, persisted>>
    /\ UNCHANGED outsideApp

\* the store calls the handlers of the rendered view can make: those of
\* Presses, an edit of a rendered record, a delete of a rendered record
AppPresses(first) ==
    Presses(first)
    \cup {Press("handleSaveEdit",
                Call("updateTransaction",
                     <<[transactions[i] EXCEPT !.merchant = m]>>, 0), 0) :
                i \in 1..Len(transactions), m \in EditMerchants \ {<<>>}}
    \cup {Press("confirmDelete",
                Call("deleteTransaction", <<>>, transactions[i].id), 0) :
                i \in 1..Len(transactions)}

\* a handler calls the store
Mutate ==
    \E p \in AppPresses(nextId + 1) :
        /\ effects = <<>>
        /\ Len(queued) < MaxBurst
        /\ Len(AppState(Pending, <<p.call>>, tzOffset).transactions) <= MaxHist
        /\ queued' = Append(queued, p.call)
        /\ nextId' = nextId + p.fresh
        /\ UNCHANGED <<transactions, tzOffset, isLoading, persisted, effects>>
        /\ UNCHANGED outsideApp

NextApp ==
    \/ LoadEffect
    \/ SaveEffect
    \/ Rerender
    \/ Mutate

SpecApp == AppInit /\ [][NextApp]_vars

-----------------------------------------------------------------------------
(* The history built by imports alone *)

NextImports ==
    \/ AddTransactions
    \/ AddTransactionsAgain

SpecImports == Init /\ [][NextImports]_vars

-----------------------------------------------------------------------------
(* Imports of records whose merchant cleanName empties *)

\* merchants as the review lets them through (item.merchant || 'Unknown'
\* keeps any non-empty text): a bare transfer prefix, a blank, two names
NameMerchants ==
    { ZelleTo,
      <<" ">>,
      BaseMerchant,
      <<"B", "o">> }

NamedItems ==
    {Item(d, m, BaseAmount, BaseType) :
        d \in {BaseDate, OtherMonthDate}, m \in NameMerchants}

\* addTransactions called with a reviewed batch of such records
ImportNamed ==
    \E n \in 1..MaxBatch :
        /\ nextId + n <= MaxId
        /\ \E items \in [1..n -> NamedItems] :
            /\ nextId' = nextId + n
            /\ Merge(WithIds(items, nextId + 1))

SpecNames == Init /\ [][ImportNamed]_vars

-----------------------------------------------------------------------------
(* SmartImports: the import modal, its analyses in flight, the review and  *)
(* the confirmation                                                        *)

MaxFiles == 2       \* files selected in one run
MaxSessions == 2    \* times the modal is opened in one run
MaxRows == 2        \* rows of one bank statement

\* the amount of an item: the number the service returned, the text the
\* review input holds, or undefined
Num(n) == [kind |-> "number", num |-> n, text |-> <<>>]
Typed(text) == [kind |-> "string", num |-> 0, text |-> text]
Undefined == [kind |-> "undefined", num |-> 0, text |-> <<>>]

Digits == <<"0", "1", "2", "3", "4", "5", "6", "7", "8", "9">>

IsDigit(c) == \E d \in 1..10 : Digits[d] = c

DigitValue(c) == (CHOOSE d \in 1..10 : Digits[d] = c) - 1

\* the value of a string of digits read as a whole number
RECURSIVE DigitsValue(_)
DigitsValue(ds) ==
    IF ds = <<>> THEN 0
    ELSE 10 * DigitsValue(SubSeq(ds, 1, Len(ds) - 1)) + DigitValue(ds[Len(ds)])

\* StringToNumber for decimal literals of at most three decimals, in
\* thousandths: blanks trimmed, the empty string 0, an optional sign,
\* digits, an optional fraction; anything else is NaN
StringToNumber(text) ==
    LET t == trim(text)
        negative == t # <<>> /\ t[1] = "-"
        signed == t # <<>> /\ t[1] \in {"-", "+"}
        body == IF signed THEN Tail(t) ELSE t
        dots == {i \in 1..Len(body) : body[i] = "."}
        whole == IF dots = {} THEN body ELSE SubSeq(body, 1, Min(dots) - 1)
        fraction == IF dots = {} THEN <<>>
                    ELSE SubSeq(body, Min(dots) + 1, Len(body))
        padded == SubSeq(fraction \o <<"0", "0", "0">>, 1, 3)
        wellFormed ==
            /\ Cardinality(dots) <= 1
            /\ Len(whole) + Len(fraction) > 0
            /\ Len(fraction) <= 3
            /\ \A i \in 1..Len(whole) : IsDigit(whole[i])
            /\ \A i \in 1..Len(fraction) : IsDigit(fraction[i])
        magnitude == 1000 * DigitsValue(whole) + DigitsValue(padded)
    IN  IF t = <<>> THEN [nan |-> FALSE, n |-> 0]
        ELSE IF ~wellFormed THEN [nan |-> TRUE, n |-> 0]
        ELSE [nan |-> FALSE, n |-> IF negative THEN 0 - magnitude ELSE magnitude]

\* Number(x)
Number(x) ==
    CASE x.kind = "number" -> [nan |-> FALSE, n |-> x.num]
      [] x.kind = "string" -> StringToNumber(x.text)
      [] OTHER -> [nan |-> TRUE, n |-> 0]

\* Number(x) || 0
NumberOrZero(x) == IF Number(x).nan THEN 0 ELSE Number(x).n

\* new Date().toISOString(), and its split('T')[0]
nowISOString == Ts(2024, 1, 15, 22)
today == Day(2024, 1, 15)

\* the empty string, which is also how the model writes a field the object
\* does not have: each x || d of the component treats the two alike
NoText == Bad("")
Unknown == <<"U", "n", "k", "n", "o", "w", "n">>
Employer == <<"E", "m", "p", "l", "o", "y", "e", "r">>
Acme == <<"A", "c", "m", "e">>

\* an item under review; file is the selection it came from
ParsedItem(id, date, merchant, amount, type, category, file) ==
    [id |-> id, date |-> date, merchant |-> merchant, amount |-> amount,
     type |-> type, category |-> category, include |-> TRUE, file |-> file]

\* rows analyzeBankStatement can return: the schema's fields, any of which
\* an untrusted response may lack
Row(date, merchant, amount, type, category) ==
    [date |-> date, merchant |-> merchant, amount |-> amount, type |-> type,
     category |-> category]

FullRow == Row(BaseDate, BaseMerchant, Num(BaseAmount), "fixed_bill", "Housing")
BareRow == Row(NoText, <<>>, Undefined, "", "")
IncomeRow == Row(OtherMonthDate, Acme, Num(90000), "income", "")

StatementRowSeqs ==
    {rows \in {<<FullRow>>, <<BareRow, IncomeRow>>} :
        Len(rows) <= MaxRows}

\* what an analysis can come to: the call throws (no API key), returns what
\* its catch returns (failed), or returns the parsed response
Outcome(how, rows) == [how |-> how, rows |-> rows]

\* analyzeBankStatement: [] from the catch, or the array parsed ('[]' for
\* an empty response)
analyzeBankStatement ==
    {Outcome("threw", <<>>), Outcome("failed", <<>>), Outcome("parsed", <<>>)}
    \cup {Outcome("parsed", rows) : rows \in StatementRowSeqs}

\* analyzePaystub: null from the catch, or the object parsed ('{}' for an
\* empty response), written as a row: payer as merchant, amount, date
PaystubObjects ==
    { Row(NoText, <<>>, Undefined, "", ""),
      Row(NoText, <<>>, Num(0), "", ""),
      Row(NoText, <<>>, Num(90000), "", ""),
      Row(OtherMonthDate, Acme, Num(90000), "", "") }

analyzePaystub ==
    {Outcome("threw", <<>>), Outcome("failed", <<>>)}
    \cup {Outcome("parsed", <<object>>) : object \in PaystubObjects}

\* x is truthy (a number or a field that may be undefined)
Truthy(x) == x.kind = "number" /\ x.num # 0

\* reader.onloadend for a paystub with a placeholder row for a failed call
onloadendPlaceholder(type, outcome, first, file) ==
    IF outcome.how = "threw" THEN [set |-> FALSE, items |-> <<>>]
    ELSE IF type = "statement"
    THEN [set |-> TRUE,
          items |-> [i \in 1..Len(outcome.rows) |->
                        ParsedItem(first + i - 1, outcome.rows[i].date,
                                   outcome.rows[i].merchant, outcome.rows[i].amount,
                                   outcome.rows[i].type, outcome.rows[i].category,
                                   file)]]
    ELSE [set |-> TRUE,
          items |-> <<ParsedItem(first, today, Employer, Num(0), "income",
                                 "Income", file)>>]

\* reader.onloadend once the analysis has answered: whether setParsedItems
\* is called and with what, uuidv4 handing out ids from first on. A thrown
\* call, result.amount of null and results.map of no array end the
\* callback before it sets anything
onloadend(type, outcome, first, file) ==
    IF outcome.how = "threw" THEN [set |-> FALSE, items |-> <<>>]
    ELSE IF type = "statement"
    THEN [set |-> TRUE,
          items |-> [i \in 1..Len(outcome.rows) |->
                        ParsedItem(first + i - 1, outcome.rows[i].date,
                                   outcome.rows[i].merchant, outcome.rows[i].amount,
                                   outcome.rows[i].type, outcome.rows[i].category,
                                   file)]]
    ELSE IF outcome.how = "failed" THEN [set |-> FALSE, items |-> <<>>]
    ELSE LET result == outcome.rows[1]
         IN  IF Truthy(result.amount)
             THEN [set |-> TRUE,
                   items |-> <<ParsedItem(first,
                                          IF result.date # NoText THEN result.date
                                          ELSE today,
                                          IF result.merchant # <<>> THEN result.merchant
                                          ELSE Employer,
                                          result.amount, "income", "Income", file)>>]
             ELSE [set |-> FALSE, items |-> <<>>]

\* the map of confirmImport without the defaults
toTransactionAsIs(item) ==
    Tx(item.id, item.date, item.merchant, NumberOrZero(item.amount), item.type,
       item.category)

\* the map of confirmImport (items carry the id handleFileSelect gave them)
toTransaction(item) ==
    Tx(item.id,
       IF item.date # NoText THEN item.date ELSE nowISOString,
       IF item.merchant # <<>> THEN item.merchant ELSE Unknown,
       NumberOrZero(item.amount),
       IF item.type # "" THEN item.type ELSE "spending",
       IF item.category # "" THEN item.category ELSE "Other")

\* toImport of confirmImport
toImport(items) ==
    LET included == SelectSeq(items, LAMBDA item : item.include)
    IN  [i \in 1..Len(included) |-> toTransaction(included[i])]

\* what the user types into the date, merchant and amount inputs of a row
ReviewDates == {Bad("n/a")}
ReviewMerchants == {<<>>}
ReviewAmounts == {Typed(<<"-", "5">>)}

\* a file selected: the import type and the modal session of the render
\* whose handler took it, what its analysis came to, and where its items
\* are: "inflight", "nothing" (none were set), "review", "discarded",
\* "confirmed"
File(type, opened) ==
    [type |-> type, session |-> opened, outcome |-> Outcome("pending", <<>>),
     status |-> "inflight"]

InFlight == {f \in 1..Len(files) : files[f].status = "inflight"}

\* the files whose items are under review
UnderReview == {parsedItems[i].file : i \in 1..Len(parsedItems)}

\* the files after the items under review are gone, having come to status
Settle(fs, status) ==
    [f \in 1..Len(fs) |->
        IF f \in UnderReview THEN [fs[f] EXCEPT !.status = status] ELSE fs[f]]

ModalStep ==
    /\ UNCHANGED storeVars
    /\ UNCHANGED outsideModal

\* onClick of 'Import Banking Statements' and of 'Import Past Earnings'
OpenModal ==
    \E type \in {"statement", "paystub"} :
        /\ importType = "none"
        /\ session < MaxSessions
        /\ importType' = type
        /\ session' = session + 1
        /\ UNCHANGED <<isAnalyzingFile, parsedItems, files>>
        /\ ModalStep

\* onClick of the modal's X
CloseModal ==
    /\ importType # "none"
    /\ importType' = "none"
    /\ parsedItems' = <<>>
    /\ files' = Settle(files, "discarded")
    /\ UNCHANGED <<isAnalyzingFile, session>>
    /\ ModalStep

\* handleFileSelect, the input being rendered while no item is under
\* review: setIsAnalyzingFile(true), the reader started, and in the finally
\* of the same call setIsAnalyzingFile(false)
HandleFileSelect ==
    /\ importType # "none"
    /\ parsedItems = <<>>
    /\ ~isAnalyzingFile
    /\ Len(files) < MaxFiles
    /\ isAnalyzingFile' = FALSE
    /\ files' = Append(files, File(importType, session))
    /\ UNCHANGED <<importType, parsedItems, session>>
    /\ ModalStep

\* reader.onloadend runs to its end for a file selected earlier, importType
\* being the one of the render that selected the file
AnalysisArrives ==
    \E f \in InFlight :
        \E outcome \in IF files[f].type = "statement" THEN analyzeBankStatement
                       ELSE analyzePaystub :
            \E result \in {onloadend(files[f].type, outcome, nextId + 1, f)} :
                /\ parsedItems' = IF result.set THEN result.items ELSE parsedItems
                /\ nextId' = nextId + Len(result.items)
                /\ files' = [g \in 1..Len(files) |->
                                IF g = f
                                THEN [files[g] EXCEPT
                                        !.outcome = outcome,
                                        !.status = IF result.items = <<>>
                                                   THEN "nothing" ELSE "review"]
                                ELSE IF result.set /\ g \in UnderReview
                                THEN [files[g] EXCEPT !.status = "discarded"]
                                ELSE files[g]]
                /\ UNCHANGED <<importType, isAnalyzingFile, session>>
                /\ UNCHANGED <<transactions, tzOffset, lastOp, lastBatch, lastPrev,
                               uniqueNew, processedNew>>
                /\ UNCHANGED outsideModal

Reviewing == importType # "none" /\ parsedItems # <<>>

\* toggleInclude
ToggleInclude ==
    \E index \in 1..Len(parsedItems) :
        /\ Reviewing
        /\ parsedItems' = [parsedItems EXCEPT ![index].include = ~@]
        /\ UNCHANGED <<importType, isAnalyzingFile, files, session>>
        /\ ModalStep

\* updateItem from the onChange of the three inputs of a row
UpdateItem ==
    \E index \in 1..Len(parsedItems) :
        /\ Reviewing
        /\ \/ \E value \in ReviewDates :
                parsedItems' = [parsedItems EXCEPT ![index].date = value]
           \/ \E value \in ReviewMerchants :
                parsedItems' = [parsedItems EXCEPT ![index].merchant = value]
           \/ \E value \in ReviewAmounts :
                parsedItems' = [parsedItems EXCEPT ![index].amount = value]
        /\ UNCHANGED <<importType, isAnalyzingFile, files, session>>
        /\ ModalStep

\* onClick of 'Start Over'
StartOver ==
    /\ Reviewing
    /\ parsedItems' = <<>>
    /\ files' = Settle(files, "discarded")
    /\ UNCHANGED <<importType, isAnalyzingFile, session>>
    /\ ModalStep

\* confirmImport, and the updater of addTransactions when it is called
ConfirmReviewed ==
    \E batch \in {toImport(parsedItems)} :
        /\ Reviewing
        /\ IF Len(batch) > 0
           THEN \E next \in {addTransactions(transactions, batch, tzOffset)} :
                    /\ Len(next) <= MaxHist
                    /\ transactions' = next
                    /\ lastOp' = "addTransactions"
                    /\ lastBatch' = batch
                    /\ lastPrev' = transactions
                    /\ uniqueNew' = dedupe(transactions, batch)
                    /\ processedNew' =
                            classifyRecurring(transactions,
                                              dedupe(transactions, batch), tzOffset)
           ELSE UNCHANGED <<transactions, lastOp, lastBatch, lastPrev, uniqueNew,
                            processedNew>>
        /\ importType' = "none"
        /\ parsedItems' = <<>>
        /\ files' = Settle(files, "confirmed")
        /\ UNCHANGED <<tzOffset, nextId, isAnalyzingFile, session>>
        /\ UNCHANGED outsideModal

NextModal ==
    \/ OpenModal
    \/ CloseModal
    \/ HandleFileSelect
    \/ AnalysisArrives
    \/ ToggleInclude
    \/ UpdateItem
    \/ StartOver
    \/ ConfirmReviewed

ModalInit == Init /\ tzOffset = 0

SpecModal == ModalInit /\ [][NextModal]_vars

-----------------------------------------------------------------------------
(* Vocabulary of the claims *)

AfterMerge == lastOp = "addTransactions"

IsParseable(date) == date.kind # "bad"

\* the calendar day as the date string writes it (the whole text when the
\* string is no date)
SameCalendarDay(d1, d2) ==
    IF IsParseable(d1) /\ IsParseable(d2)
    THEN d1.y = d2.y /\ d1.m = d2.m /\ d1.d = d2.d
    ELSE d1.kind = d2.kind /\ d1.txt = d2.txt

CasePairs ==
    {<<"A", "a">>, <<"B", "b">>, <<"C", "c">>, <<"L", "l">>, <<"T", "t">>,
     <<"Z", "z">>}

SameLetter(c1, c2) ==
    c1 = c2 \/ <<c1, c2>> \in CasePairs \/ <<c2, c1>> \in CasePairs

Ink(s) == {i \in 1..Len(s) : s[i] # " "}

\* a and b differ at most by letter case and by surrounding blanks
EqualUpToCaseAndOuterSpace(a, b) ==
    IF Ink(a) = {} \/ Ink(b) = {}
    THEN Ink(a) = {} /\ Ink(b) = {}
    ELSE LET fa == Min(Ink(a))
             fb == Min(Ink(b))
             na == Cardinality({i \in 1..Len(a) : i >= fa /\ \E j \in Ink(a) : j >= i})
             nb == Cardinality({i \in 1..Len(b) : i >= fb /\ \E j \in Ink(b) : j >= i})
         IN  /\ na = nb
             /\ \A k \in 0..(na - 1) : SameLetter(a[fa + k], b[fb + k])

\* n is a duplicate of e in the sense of the Deduplicator's match rule
DuplicateOf(n, e) ==
    /\ SameCalendarDay(n.date, e.date)
    /\ n.amount - e.amount < DupTolerance
    /\ e.amount - n.amount < DupTolerance
    /\ EqualUpToCaseAndOuterSpace(n.merchant, e.merchant)

\* the positions of B whose record has no duplicate in H
Survivors(H, B) ==
    {i \in 1..Len(B) : \A k \in 1..Len(H) : ~DuplicateOf(B[i], H[k])}

\* the j-th smallest element of K
NthOf(K, j) == CHOOSE i \in K : Cardinality({l \in K : l <= i}) = j

-----------------------------------------------------------------------------
(* C1: the deduplication step keeps exactly the records of the batch that  *)
(* have no duplicate in the history (same calendar day, amounts less than  *)
(* a cent apart, merchants equal up to case and surrounding blanks), in    *)
(* the order of the batch and unmodified.                                  *)
C1_DedupeKeepsExactlyTheNonDuplicates ==
    AfterMerge =>
        LET K == Survivors(lastPrev, lastBatch)
        IN  /\ Len(uniqueNew) = Cardinality(K)
            /\ \A j \in 1..Len(uniqueNew) : uniqueNew[j] = lastBatch[NthOf(K, j)]

(* C3: after addTransactions the history is the surviving new records, in  *)
(* batch order, followed by the previous history unchanged.                *)
C3_NewRecordsPrependedHistoryKept ==
    AfterMerge =>
        LET k == Len(transactions) - Len(lastPrev)
            \* the batch position a surviving record came from (ids are
            \* distinct within a batch)
            from(j) == CHOOSE i \in 1..Len(lastBatch) :
                            lastBatch[i].id = transactions[j].id
        IN  /\ k = Len(uniqueNew)
            /\ \A j \in 1..k :
                /\ \E i \in 1..Len(lastBatch) :
                        [transactions[j] EXCEPT !.type = "any"]
                            = [lastBatch[i] EXCEPT !.type = "any"]
                /\ \A l \in 1..(j - 1) : from(l) < from(j)
            /\ \A j \in 1..Len(lastPrev) : transactions[k + j] = lastPrev[j]

\* a merge that added a record in front of a non-empty history
C3_Witness ==
    /\ AfterMerge
    /\ lastPrev # <<>>
    /\ Len(transactions) > Len(lastPrev)
    /\ Len(lastBatch) > Len(uniqueNew)
    /\ transactions[1].id \notin {lastPrev[j].id : j \in 1..Len(lastPrev)}

(* C6: an incoming record of type income leaves the merge unchanged,      *)
(* whatever the history holds.                                             *)
C6_IncomeNeverReclassified ==
    AfterMerge =>
        \A i \in 1..Len(lastBatch) :
            lastBatch[i].type = "income" =>
                \A j \in 1..(Len(transactions) - Len(lastPrev)) :
                    transactions[j].id = lastBatch[i].id
                        => transactions[j] = lastBatch[i]

\* an income record entered the history although the history held an
\* expense at the same merchant, for the same amount, in another month
C6_Witness ==
    /\ AfterMerge
    /\ \E i \in 1..Len(lastBatch) : \E k \in 1..Len(lastPrev) :
        /\ lastBatch[i].type = "income"
        /\ transactions[1] = lastBatch[i]
        /\ lastPrev[k].type # "income"
        /\ lastPrev[k].merchant = lastBatch[i].merchant
        /\ lastPrev[k].amount = lastBatch[i].amount
        /\ IsParseable(lastPrev[k].date)
        /\ IsParseable(lastBatch[i].date)
        /\ lastPrev[k].date.m # lastBatch[i].date.m
        /\ lastPrev[k].date.d = lastBatch[i].date.d

(* C7: the recurrence step returns one record per input record, in the     *)
(* same order, equal to its input in id, date, merchant, amount and        *)
(* category, with the input's type or fixed_bill; a fixed_bill stays one.  *)
C7_OnlyTypeMayChangeAndOnlyToFixedBill ==
    AfterMerge =>
        /\ Len(processedNew) = Len(uniqueNew)
        /\ \A i \in 1..Len(uniqueNew) :
            /\ processedNew[i].id = uniqueNew[i].id
            /\ processedNew[i].date = uniqueNew[i].date
            /\ processedNew[i].merchant = uniqueNew[i].merchant
            /\ processedNew[i].amount = uniqueNew[i].amount
            /\ processedNew[i].category = uniqueNew[i].category
            /\ processedNew[i].type \in {uniqueNew[i].type, "fixed_bill"}

\* one batch in which a fixed_bill without any evidence stayed a fixed_bill
\* and a spending record was upgraded
C7_Witness ==
    /\ AfterMerge
    /\ lastPrev # <<>>
    /\ \E i \in 1..Len(uniqueNew) :
        /\ uniqueNew[i].type = "fixed_bill"
        /\ ~isRecurring(lastPrev, uniqueNew[i], tzOffset)
        /\ processedNew[i].type = "fixed_bill"
    /\ \E i \in 1..Len(uniqueNew) :
        /\ uniqueNew[i].type = "spending"
        /\ processedNew[i].type = "fixed_bill"

(* C9: merging a batch into an empty history yields exactly the batch.     *)
C9_MergeIntoEmptyHistoryIsTheBatch ==
    (AfterMerge /\ lastPrev = <<>>) => transactions = lastBatch

\* a batch of two expenses at the same merchant in different months
\* merged into the empty history
C9_Witness ==
    /\ AfterMerge
    /\ lastPrev = <<>>
    /\ Len(lastBatch) = 2
    /\ lastBatch[1].merchant = lastBatch[2].merchant
    /\ lastBatch[1].amount = lastBatch[2].amount
    /\ lastBatch[1].type = "spending"
    /\ lastBatch[2].type = "spending"
    /\ IsParseable(lastBatch[1].date)
    /\ IsParseable(lastBatch[2].date)
    /\ lastBatch[1].date.m # lastBatch[2].date.m
    /\ lastBatch[1].date.d = lastBatch[2].date.d
    /\ Len(transactions) = 2

(* C10: deduplication is idempotent: filtering the output of the filter    *)
(* against the same history returns it unchanged.                          *)
C10_DedupeIdempotent ==
    AfterMerge => dedupe(lastPrev, uniqueNew) = uniqueNew

\* a deduplication that dropped one record of the batch and kept another
C10_Witness ==
    /\ AfterMerge
    /\ uniqueNew # <<>>
    /\ Len(uniqueNew) < Len(lastBatch)

-----------------------------------------------------------------------------
(* Recurrence evidence as the Recurrence Classifier's contract states it,  *)
(* the calendar month being the month the date string writes, compared by  *)
(* month number alone.                                                     *)

MonthWritten(date) == date.m

NameAndAmountMatch(e, n) ==
    /\ e.type # "income"
    /\ nameMatch(cleanName(e.merchant), cleanName(n.merchant))
    /\ e.amount - n.amount < RecurTolerance
    /\ n.amount - e.amount < RecurTolerance

EvidenceFor(e, n) ==
    /\ NameAndAmountMatch(e, n)
    /\ MonthWritten(e.date) # MonthWritten(n.date)

\* every date of the last merge is a calendar date
AllDatesParseable ==
    /\ \A k \in 1..Len(lastPrev) : IsParseable(lastPrev[k].date)
    /\ \A i \in 1..Len(lastBatch) : IsParseable(lastBatch[i].date)

(* C2: the recurrence step sets a record's type to fixed_bill if and only  *)
(* if the record is not income and the history holds a non-income record   *)
(* with a matching name, an amount less than 10.00 away and a different    *)
(* calendar month; otherwise the record keeps its type. (Stated for        *)
(* merges in which every date is a calendar date.)                         *)
C2_UpgradedIffEvidenceInAnotherMonth ==
    (AfterMerge /\ AllDatesParseable) =>
        \A i \in 1..Len(uniqueNew) :
            LET n == uniqueNew[i]
                evidence == /\ n.type # "income"
                            /\ \E k \in 1..Len(lastPrev) : EvidenceFor(lastPrev[k], n)
            IN  processedNew[i].type = (IF evidence THEN "fixed_bill" ELSE n.type)

(* C5: a name-and-amount match counts as evidence exactly when its month   *)
(* number differs from the incoming record's: matches in the same month    *)
(* number (of any year) never upgrade it, a match in another month number  *)
(* always upgrades a non-income record. (Stated for merges in which every  *)
(* date is a calendar date.)                                               *)
C5_SameMonthNeverOtherMonthAlways ==
    (AfterMerge /\ AllDatesParseable) =>
        \A i \in 1..Len(uniqueNew) :
            LET n == uniqueNew[i]
                matches == {k \in 1..Len(lastPrev) : NameAndAmountMatch(lastPrev[k], n)}
            IN  n.type \notin {"income", "fixed_bill"} =>
                    /\ (\E k \in matches :
                            MonthWritten(lastPrev[k].date) # MonthWritten(n.date))
                        => processedNew[i].type = "fixed_bill"
                    /\ (\A k \in matches :
                            MonthWritten(lastPrev[k].date) = MonthWritten(n.date))
                        => processedNew[i].type = n.type

(* C4: re-importing a batch is a no-op: merging the batch again into the   *)
(* history its merge produced adds no record and leaves the history as it  *)
(* is.                                                                     *)
C4_ReimportAddsNothing ==
    [][ ( /\ lastOp = "addTransactions"
          /\ lastOp' = "addTransactions"
          /\ lastBatch' = lastBatch
          /\ lastPrev' = transactions )
        => (processedNew' = <<>> /\ transactions' = transactions) ]_vars

\* the batch merged a second time held two records that duplicate each
\* other, both upgraded to fixed_bill by the first merge
C4_Witness ==
    /\ AfterMerge
    /\ lastPrev = transactions
    /\ processedNew = <<>>
    /\ Len(lastBatch) = 2
    /\ DuplicateOf(lastBatch[1], lastBatch[2])
    /\ \A i \in 1..2 :
        /\ lastBatch[i].type = "spending"
        /\ \E j \in 1..Len(transactions) :
            /\ transactions[j].id = lastBatch[i].id
            /\ transactions[j].type = "fixed_bill"

-----------------------------------------------------------------------------
(* Merchant normalisation *)

\* the name without one of the three strings, when it starts with one
StripOnePrefix(s) ==
    IF StartsWith(s, ZelleTo) THEN DropPrefix(s, ZelleTo)
    ELSE IF StartsWith(s, ZelleTransferTo) THEN DropPrefix(s, ZelleTransferTo)
    ELSE IF StartsWith(s, TransferTo) THEN DropPrefix(s, TransferTo)
    ELSE s

\* s without the leftmost occurrence of pat, found by scanning s from the left
RECURSIVE WithoutLeftmost(_, _)
WithoutLeftmost(s, pat) ==
    IF Len(s) < Len(pat) THEN s
    ELSE IF StartsWith(s, pat) THEN DropPrefix(s, pat)
    ELSE <<Head(s)>> \o WithoutLeftmost(Tail(s), pat)

LowerCased(s) ==
    [i \in 1..Len(s) |->
        IF \E p \in CasePairs : p[1] = s[i]
        THEN (CHOOSE p \in CasePairs : p[1] = s[i])[2]
        ELSE s[i]]

(* C8 as stated: normalisation lower-cases the name, removes at most one   *)
(* of 'zelle to ', 'zelle transfer to ', 'transfer to ' (tried in that     *)
(* order) and only at the start of the name, then trims. (Blanks in front  *)
(* of the name are not held against the claim: a string that follows only  *)
(* blanks counts as standing at the start.)                                *)
C8_AtMostOnePrefixStripped ==
    cnDone =>
        \/ cnOut = trim(StripOnePrefix(LowerCased(cnIn)))
        \/ cnOut = trim(StripOnePrefix(trimStart(LowerCased(cnIn))))

(* C8 amended: normalisation lower-cases the name, then removes the        *)
(* leftmost occurrence of 'zelle to ', then of 'zelle transfer to ', then  *)
(* of 'transfer to ', each wherever it stands in the name, then trims.     *)
C8_LeftmostOccurrenceOfEachRemoved ==
    cnDone =>
        cnOut = trim(WithoutLeftmost(
                        WithoutLeftmost(
                            WithoutLeftmost(LowerCased(cnIn), ZelleTo),
                            ZelleTransferTo),
                        TransferTo))

\* a name that carries two of the strings, the first of them not at its
\* start, and lost both
C8_Witness ==
    /\ cnDone
    /\ ~StartsWith(LowerCased(cnIn), ZelleTo)
    /\ includes(LowerCased(cnIn), ZelleTo)
    /\ includes(LowerCased(cnIn), TransferTo)
    /\ ~includes(cnOut, ZelleTo)
    /\ ~includes(cnOut, TransferTo)
    /\ cnOut # <<>>

-----------------------------------------------------------------------------
(* The boundaries of the match tests *)

\* the amounts x and y (thousandths of a dollar) are less than tolerance apart
ExactlyWithin(x, y, tolerance) == x - y < tolerance /\ y - x < tolerance

SameDayAndMerchant ==
    /\ pairIn[1].date = pairIn[2].date
    /\ pairIn[1].merchant = pairIn[2].merchant

(* C11: the duplicate amount test holds exactly when the two amounts are    *)
(* less than one cent apart: two records of the same day and merchant are  *)
(* duplicates if and only if their amounts differ by less than 0.01.       *)
C11_DuplicateAmountsIffLessThanACentApart ==
    (pairDone /\ SameDayAndMerchant) =>
        (pairOut.isDuplicate
            <=> ExactlyWithin(pairIn[1].amount, pairIn[2].amount, DupTolerance))

(* C12: the recurrence amount test holds exactly when the two amounts are  *)
(* less than 10.00 apart, and a prior record 10.00 or more away is never   *)
(* recurrence evidence.                                                    *)
C12_RecurrenceAmountsIffLessThanTenApart ==
    pairDone =>
        /\ pairOut.amountMatch
                <=> ExactlyWithin(pairIn[1].amount, pairIn[2].amount, RecurTolerance)
        /\ pairOut.isRecurring
                => ExactlyWithin(pairIn[1].amount, pairIn[2].amount, RecurTolerance)

SameAmountAndMerchant ==
    /\ pairIn[1].amount = pairIn[2].amount
    /\ pairIn[1].merchant = pairIn[2].merchant

-----------------------------------------------------------------------------
(* The store under the handlers of the view *)

Ids(history) == {history[i].id : i \in 1..Len(history)}

CallOf(step) == Call(step.op, step.txs, step.id)

\* C14: store operations issued back to back before the view renders again
\* are applied one at a time in the order issued: the first to the rendered
\* history, each later one (a merge dedupes and classifies against it) to the
\* result of the one before, and the history rendered next is the result of
\* the last, so that no effect is lost or computed from a stale snapshot
C14_QueuedOperationsApplyInOrder ==
    [][applied' # <<>> =>
        /\ applied'[1].prev = transactions
        /\ \A i \in 2..Len(applied') : applied'[i].prev = applied'[i - 1].next
        /\ \A i \in 1..Len(applied') :
                applied'[i].next = Updater(CallOf(applied'[i]), applied'[i].prev, tzOffset)
        /\ transactions' = applied'[Len(applied')].next]_vars

\* a single add and then an import of the same purchase, issued back to back:
\* the import is deduped against the add
C14_Witness ==
    /\ Len(applied) = 2
    /\ applied[1].op = "addTransaction"
    /\ applied[2].op = "addTransactions"
    /\ \E k \in 1..Len(applied[2].txs) :
            /\ isDuplicate(applied[1].txs[1], applied[2].txs[k])
            /\ applied[2].txs[k].id \notin Ids(transactions)
    /\ applied[1].txs[1].id \in Ids(transactions)

\* C15: no two records of the history have the same id
C15_IdsAreUnique ==
    \A i \in 1..Len(transactions) : \A j \in 1..Len(transactions) :
        transactions[i].id = transactions[j].id => i = j

\* the same reviewed batch confirmed twice before the view renders again
C15_Witness ==
    /\ Len(applied) = 2
    /\ applied[1].op = "addTransactions"
    /\ applied[2].op = "addTransactions"
    /\ applied[1].txs = applied[2].txs
    /\ Len(applied[1].next) > Len(applied[1].prev)

\* C17: an id of the history stays in the history across every store
\* operation except deleteTransaction called with that id, and that call
\* leaves the records with other ids as they were and in their order
C17_OnlyDeleteRemovesAndOnlyItsId ==
    \A k \in 1..Len(applied) :
        LET step == applied[k]
            others(t) == t.id # step.id
        IN  IF step.op = "deleteTransaction"
            THEN step.next = SelectSeq(step.prev, others)
            ELSE Ids(step.prev) \subseteq Ids(step.next)

\* a record deleted from between two others
C17_Witness ==
    \E k \in 1..Len(applied) :
        /\ applied[k].op = "deleteTransaction"
        /\ Len(applied[k].prev) = 3
        /\ applied[k].prev[2].id = applied[k].id
        /\ applied[k].next = <<applied[k].prev[1], applied[k].prev[3]>>

\* C18: updateTransaction(u) puts u where the record with u's id is, keeps
\* the length and every other record, and changes nothing when no record has
\* that id; what the editors save has the id, type and category of the
\* record it replaces
C18_UpdateReplacesInPlace ==
    \A k \in 1..Len(applied) :
        LET step == applied[k]
            u == step.txs[1]
        IN  step.op = "updateTransaction" =>
                /\ Len(step.next) = Len(step.prev)
                /\ \A i \in 1..Len(step.prev) :
                        IF step.prev[i].id = u.id
                        THEN /\ step.next[i] = u
                             /\ u.type = step.prev[i].type
                             /\ u.category = step.prev[i].category
                        ELSE step.next[i] = step.prev[i]
                /\ u.id \notin Ids(step.prev) => step.next = step.prev

\* an edit saved right after the delete of its record, issued before the
\* view rendered the delete
C18_Witness ==
    \E k \in 2..Len(applied) :
        /\ applied[k].op = "updateTransaction"
        /\ applied[k - 1].op = "deleteTransaction"
        /\ applied[k - 1].id = applied[k].txs[1].id
        /\ applied[k - 1].next # applied[k - 1].prev
        /\ applied[k].prev # <<>>

\* an edit that changes the record, saved between two other records
EditSavedInPlace ==
    \E k \in 1..Len(applied) :
        /\ applied[k].op = "updateTransaction"
        /\ Len(applied[k].prev) = 3
        /\ applied[k].prev[2].id = applied[k].txs[1].id
        /\ applied[k].prev[2] # applied[k].txs[1]

\* C19: addTransaction(t) puts t, every field as given, in front of the
\* history, whatever the history holds; the records before it are unchanged
\* and the length grows by one
C19_SingleAddIsVerbatim ==
    \A k \in 1..Len(applied) :
        applied[k].op = "addTransaction" =>
            /\ applied[k].next = <<applied[k].txs[1]>> \o applied[k].prev
            /\ Len(applied[k].next) = Len(applied[k].prev) + 1

\* a single add of a purchase the history already holds, with the same bill
\* in another month in the history as well
C19_Witness ==
    \E k \in 1..Len(applied) :
        /\ applied[k].op = "addTransaction"
        /\ \E i \in 1..Len(applied[k].prev) :
                isDuplicate(applied[k].prev[i], applied[k].txs[1])
        /\ isRecurring(applied[k].prev, applied[k].txs[1], tzOffset)
        /\ applied[k].txs[1].type = "spending"


-----------------------------------------------------------------------------
(* What the form and the imports create *)

\* C16: a record whose type is income when it is created has category
\* Income, from the form and from the paystub and bank statement imports
C16_IncomeIsCreatedWithCategoryIncome ==
    created.via # "none" /\ created.type = "income" => created.category = "Income"

\* the same for the records of the form alone, and of the paystub import alone
IncomeFromTheFormHasCategoryIncome ==
    created.via = "form" /\ created.type = "income" => created.category = "Income"

IncomeFromAPaystubHasCategoryIncome ==
    created.via = "paystub" => created.type = "income" /\ created.category = "Income"


-----------------------------------------------------------------------------
(* The history and the storage *)

Settled == effects = <<>> /\ queued = <<>>

\* C20: the load effect runs once, with the first render; nothing is saved
\* before the loaded history is rendered; every save writes the entire
\* in-memory list; and whenever no effect and no update is pending the
\* stored list is the in-memory list
C20_StorageFollowsTheHistory ==
    [][/\ (\E i \in 1..Len(effects') : effects'[i] = "load") =>
            (\E i \in 1..Len(effects) : effects[i] = "load")
       /\ persisted' # persisted => ~ isLoading /\ persisted' = transactions
       /\ Settled' => ~ isLoading' /\ persisted' = transactions']_vars

\* a record added in this session is stored, after a stored history was
\* loaded
C20_Witness ==
    /\ Settled
    /\ Len(persisted) >= 2
    /\ persisted[1].id = nextId
    /\ persisted[Len(persisted)].id = 1
    /\ persisted = transactions

-----------------------------------------------------------------------------
(* Imports: duplicates, batches, empty names, dates that are no dates *)

(* C25: in a history built from the empty history by import merges only,   *)
(* no two records have the same calendar day, amounts less than a cent     *)
(* apart and the same merchant up to case and surrounding blanks; two such *)
(* records of one batch do not both enter the history.                     *)
C25_NoTwoRecordsShareDayAmountAndMerchant ==
    \A i, j \in 1..Len(transactions) :
        i < j => ~DuplicateOf(transactions[i], transactions[j])

IdsAndTypes(history) ==
    {<<history[i].id, history[i].type>> : i \in 1..Len(history)}

(* C26: the outcome of an import does not depend on the grouping into      *)
(* batches: merging B1 \o B2 in one call leaves the same records (by id)   *)
(* with the same types as merging B1 and then B2.                          *)
C26_OneBatchOrTwoSameOutcome ==
    AfterMerge =>
        \A k \in 1..(Len(lastBatch) - 1) :
            LET B1 == SubSeq(lastBatch, 1, k)
                B2 == SubSeq(lastBatch, k + 1, Len(lastBatch))
                afterB1 == addTransactions(lastPrev, B1, tzOffset)
            IN  IdsAndTypes(addTransactions(afterB1, B2, tzOffset))
                    = IdsAndTypes(transactions)

\* the same for batches that hold no duplicate of each other or of the
\* history: what is left is the recurrence evidence inside the batch
C26_WithoutDuplicatesInTheBatch ==
    ( /\ AfterMerge
      /\ uniqueNew = lastBatch
      /\ \A i, j \in 1..Len(lastBatch) :
            i < j => ~DuplicateOf(lastBatch[i], lastBatch[j]) )
        => C26_OneBatchOrTwoSameOutcome

IsEmptyName(merchant) == cleanName(merchant) = <<>>

(* C27: a merchant whose normalised name is empty is no wildcard: every    *)
(* recurrence upgrade rests on a record of the history whose normalised    *)
(* name is empty exactly when the upgraded record's is.                    *)
C27_EmptyNameIsNoWildcard ==
    AfterMerge =>
        \A i \in 1..Len(uniqueNew) :
            processedNew[i].type # uniqueNew[i].type =>
                \E k \in 1..Len(lastPrev) :
                    /\ recurringEvidence(lastPrev[k], uniqueNew[i], tzOffset)
                    /\ IsEmptyName(lastPrev[k].merchant)
                            <=> IsEmptyName(uniqueNew[i].merchant)

(* C28: a record whose date cannot be parsed takes no part in a recurrence *)
(* upgrade: an upgraded record has a date that parses, and a record of the *)
(* history with a date that parses matches it in name and amount.          *)
C28_UnparseableDatesTakeNoPartInUpgrades ==
    AfterMerge =>
        \A i \in 1..Len(uniqueNew) :
            processedNew[i].type # uniqueNew[i].type =>
                /\ IsParseable(uniqueNew[i].date)
                /\ \E k \in 1..Len(lastPrev) :
                    /\ IsParseable(lastPrev[k].date)
                    /\ NameAndAmountMatch(lastPrev[k], uniqueNew[i])

-----------------------------------------------------------------------------
(* The import modal *)

\* the extraction call failed: it threw, it returned what its catch
\* returns, or it returned no result (a statement without rows, a paystub
\* without fields)
Failure(file) ==
    \/ file.outcome.how \in {"threw", "failed"}
    \/ /\ file.outcome.how = "parsed"
       /\ file.outcome.rows = (IF file.type = "statement" THEN <<>> ELSE <<BareRow>>)

(* C21: when the extraction call of an import fails, the history is left   *)
(* as it was, no item of that import is ever under review, and the import  *)
(* is never confirmed.                                                     *)
C21_FailedExtractionYieldsNothing ==
    [][ \A f \in 1..Len(files') :
            Failure(files'[f]) =>
                /\ files'[f].status = "nothing"
                /\ \A i \in 1..Len(parsedItems') : parsedItems'[i].file # f
                /\ files[f].status = "inflight" => transactions' = transactions
      ]_vars

\* a paystub analysis failed while the modal was showing the upload view,
\* after an earlier import had been confirmed into the history
C21_Witness ==
    /\ Len(files) = 2
    /\ files[1].status = "confirmed"
    /\ files[2].type = "paystub"
    /\ files[2].outcome.how = "failed"
    /\ transactions # <<>>
    /\ importType = "paystub"

\* the number an amount field stands for: the number itself, the number the
\* typed text writes, 0 for a field that is missing or no number
AmountMeant(amount) ==
    IF amount.kind = "number" THEN amount.num
    ELSE IF amount = Typed(<<"-", "5">>) THEN 0 - 5000
    ELSE 0

\* the record the confirmation is to hand over for an item
Populated(item) ==
    [id |-> item.id,
     date |-> IF item.date = NoText THEN nowISOString ELSE item.date,
     merchant |-> IF item.merchant = <<>> THEN Unknown ELSE item.merchant,
     amount |-> AmountMeant(item.amount),
     type |-> IF item.type = "" THEN "spending" ELSE item.type,
     category |-> IF item.category = "" THEN "Other" ELSE item.category]

Included == {i \in 1..Len(parsedItems) : parsedItems[i].include}

Confirming ==
    \E f \in 1..Len(files) :
        files[f].status = "review" /\ files'[f].status = "confirmed"

(* C22: the confirmation hands every included item to the merge, in the    *)
(* order of the review and fully populated: a missing or empty merchant is *)
(* 'Unknown', a missing type spending, a missing category Other, a missing *)
(* or non-numeric amount 0, a missing date the current time; every other   *)
(* field is passed through unchanged.                                      *)
C22_IncludedItemsHandedOverPopulated ==
    [][ (Confirming /\ Included # {}) =>
            /\ lastOp' = "addTransactions"
            /\ lastPrev' = transactions
            /\ Len(lastBatch') = Cardinality(Included)
            /\ \A j \in 1..Len(lastBatch') :
                    lastBatch'[j] = Populated(parsedItems[NthOf(Included, j)])
      ]_vars

\* a confirmed statement of two rows, the first without any field, the
\* second with merchant, date and type as the service returned them
C22_Witness ==
    /\ \E f \in 1..Len(files) : files[f].status = "confirmed"
    /\ Len(lastBatch) = 2
    /\ lastBatch[1] = Tx(lastBatch[1].id, nowISOString, Unknown, 0, "spending", "Other")
    /\ lastBatch[2].merchant = Acme
    /\ lastBatch[2].date = OtherMonthDate
    /\ lastBatch[2].type = "income"

(* C23: every record that entered the history through an import has a     *)
(* numeric amount and a date that parses to a calendar date.               *)
C23_ImportedRecordsHaveNumberAndCalendarDate ==
    \A i \in 1..Len(transactions) :
        /\ transactions[i].amount \in Int
        /\ IsParseable(transactions[i].date)

(* C24: every record of the history has a non-negative amount.             *)
C24_AmountsAreNonNegative ==
    \A i \in 1..Len(transactions) : transactions[i].amount >= 0

(* C29: the items under review come from a file selected during the        *)
(* modal session that shows them and for the modal's current import type.  *)
C29_ReviewedItemsAreOfThisSessionAndType ==
    Reviewing =>
        \A i \in 1..Len(parsedItems) :
            /\ files[parsedItems[i].file].session = session
            /\ files[parsedItems[i].file].type = importType

\* the same for the history: no import is confirmed in a session other
\* than the one that selected its file
C29_ConfirmedInTheSessionOfTheSelection ==
    [][ \A f \in 1..Len(files) :
            (files[f].status = "review" /\ files'[f].status = "confirmed")
                => files[f].session = session ]_vars

(* C30: the analysing flag covers the whole analysis: isAnalyzingReceipt   *)
(* is true from the selection of a receipt until its result has been       *)
(* applied to the form, so nothing is submitted and the form is not reset  *)
(* in between (and likewise isAnalyzingFile in the import modal).          *)
C30_FlagSetWhileAReceiptIsAnalysed ==
    scan.stage # "none" => form.isAnalyzingReceipt

\* the import modal: the flag is set while an analysis is in flight
C30_FlagSetWhileAFileIsAnalysed ==
    InFlight # {} => isAnalyzingFile

====
